---- MODULE Spec2Model ----
(***************************************************************************)
(* Model of the video-annotation application: the App component            *)
(* (upload of a dropped file, one analysis request per onModeSelect call,  *)
(* dispatch of the returned function call) and api.ts (uploadFile and its  *)
(* status polling loop).                                                   *)
(*                                                                         *)
(* Every asynchronous handler is cut at its awaits: one action per         *)
(* continuation.  A continuation runs to its next await (or to its end)    *)
(* without interleaving, as the event loop guarantees.                     *)
(*                                                                         *)
(* Spec is the App component.  uploadFile reads and writes no state of     *)
(* the component, so Spec sees a call of it only as pending and then as    *)
(* resolved or rejected.  SpecUpload is one call of uploadFile, cut at     *)
(* each RPC it awaits.  SpecPlayer is the VideoPlayer component with the   *)
(* handlers of App that change its props.                                  *)
(***************************************************************************)
EXTENDS Integers, Sequences, FiniteSets

\* ------------------------------------------------------------------------
\* Bounds of the model
\* ------------------------------------------------------------------------

\* number of drop events of one run
MaxDrops == 2

\* number of generateContent requests issued in one run
MaxRequests == 2

\* ------------------------------------------------------------------------
\* Program constants and value domains
\* ------------------------------------------------------------------------

\* api.ts: const maxRetries = 12
maxRetries == 12

\* null of vidUrl and file (object URLs and handles are the drop numbers 1..)
Null == 0

\* value of useState() without argument, and of setActiveMode(undefined)
Undefined == "undefined"

\* timecodeList is null or an array: None is null, Some(l) the array l
None == <<>>

Some(l) == <<l>>

\* keys of modes: one mode without sub mode and one with (isCustomMode)
Modes == {"Table", "Custom"}

SubModes == {"Custom"}

\* Object.keys(modes)[0]
FirstMode == "Table"

\* states a file of the files service can report
FileStates == {"PROCESSING", "ACTIVE", "FAILED"}

Drops == 1..MaxDrops

Requests == 1..MaxRequests

\* ------------------------------------------------------------------------
\* Model responses
\* ------------------------------------------------------------------------

\* the text a\'b, with the escaped quote the model emits
TextEscaped == <<"a", "\\", "'", "b">>

\* a text with a plain quote and a lone backslash
TextPlain == <<"\\", "a", "'">>

Time05 == <<"0", ":", "0", "5">>

Time10 == <<"0", ":", "1", "0">>

\* argument lists of a function call: the timecodes array
Payloads ==
  { << [time |-> Time05, text |-> TextEscaped] >>,
    << [time |-> Time10, text |-> TextPlain, value |-> 2],
       [time |-> Time05, value |-> 1] >> }

\* names a call can carry: the three capabilities and one the map lacks
CallNames ==
  { "set_timecodes", "set_timecodes_with_objects",
    "set_timecodes_with_numeric_values", "set_captions" }

Calls == { [name |-> n, args |-> [timecodes |-> p]] : n \in CallNames, p \in Payloads }

\* GenerateContentResponse: functionCalls and text
Responses ==
  { [functionCalls |-> <<>>, text |-> t] : t \in {"", "plain answer"} }
  \cup { [functionCalls |-> <<c>>, text |-> ""] : c \in Calls }
  \cup { [functionCalls |-> <<c1, c2>>, text |-> ""] :
           c1 \in { c \in Calls : c.name \in {"set_captions", "set_timecodes"}
                                    /\ Len(c.args.timecodes) = 1 },
           c2 \in { c \in Calls : c.name = "set_timecodes_with_numeric_values"
                                    /\ Len(c.args.timecodes) = 2 } }

VARIABLES
  vidUrl,          \* App: object URL of the preview, or Null
  file,            \* App: uploaded file info, or Null
  timecodeList,    \* App: None or Some(list of entries)
  selectedMode,    \* App: mode chosen in the sidebar
  activeMode,      \* App: mode of the last request, or Undefined
  isLoading,       \* App: a generation is awaited
  isLoadingVideo,  \* App: an upload is awaited
  videoError,      \* App: error flag
  nDrops,          \* number of drop events so far; drop d carries file d
  upload,          \* per drop: position of uploadVideo at its await
  uf,              \* one call of uploadFile: position, locals, outcome
  nRequests,       \* number of generateContent requests issued so far
  genReq,          \* per request: position of onModeSelect
  liveUrls,        \* object URLs created and not revoked
  requestedTimecode, \* App: seconds of the last seek request, or NoTimecode
  player,          \* VideoPlayer: its state and its video element
  uncaught,        \* an exception left a handler uncaught
  lastOp           \* the handler or continuation that ran last

vars ==
  << vidUrl, file, timecodeList, selectedMode, activeMode, isLoading,
     isLoadingVideo, videoError, nDrops, upload, uf, nRequests, genReq,
     liveUrls, requestedTimecode, player, uncaught, lastOp >>

\* ------------------------------------------------------------------------
\* VideoPlayer: values, rendering and effects
\* ------------------------------------------------------------------------

\* null of requestedTimecode (0 is a position)
NoTimecode == -1

\* duration of a video element before its metadata is loaded
NaN == -1

\* duration in seconds of the videos dropped
VideoLength == 20

RECURSIVE GCD(_, _)
GCD(a, b) == IF b = 0 THEN a ELSE GCD(b, a % b)

\* the number n / d, d > 0, in lowest terms
Frac(n, d) == [n |-> n \div GCD(n, d), d |-> d \div GCD(n, d)]

Zero == Frac(0, 1)

\* currentTime / duration || 0
TimeRatio(currentTime, duration) ==
  IF duration = NaN \/ currentTime = 0 THEN Zero ELSE Frac(currentTime, duration)

\* the useState initial values of VideoPlayer, no video element
InitPlayer ==
  [duration |-> 0, scrubberTime |-> Zero, isPlaying |-> FALSE, isScrubbing |-> FALSE,
   currentCaption |-> <<>>,
   mounted |-> FALSE, currentTime |-> 0, videoDuration |-> NaN, paused |-> TRUE]

\* the url effect without setIsPlaying(false)
UrlEffectKeepsPlaying(p) ==
  [p EXCEPT !.scrubberTime = Zero,
            !.currentTime = IF p.mounted THEN 0 ELSE @]

\* useEffect on [url]
UrlEffect(p) ==
  [p EXCEPT !.scrubberTime = Zero,
            !.isPlaying = FALSE,
            !.currentTime = IF p.mounted THEN 0 ELSE @]

\* useEffect on [videoRef, requestedTimecode]
RequestedEffect(p, requested) ==
  IF p.mounted /\ requested # NoTimecode
    THEN [p EXCEPT !.currentTime = requested]
    ELSE p

\* the player after App rendered it with new props: the video element is there
\* when url && !isLoadingVideo and is a new one when it appears or its src
\* changes; then the effects whose dependencies changed run
Rendered(p, url, urlNew, loadingNew, requested, requestedNew) ==
  LET shown == urlNew # Null /\ ~loadingNew
      p1 == IF ~shown \/ ~p.mounted \/ urlNew # url
              THEN [p EXCEPT !.mounted = shown, !.currentTime = 0,
                             !.videoDuration = NaN, !.paused = TRUE]
              ELSE p
      p2 == IF urlNew # url THEN UrlEffect(p1) ELSE p1
  IN IF requestedNew # requested THEN RequestedEffect(p2, requestedNew) ELSE p2

PlayerFollows ==
  player' = Rendered(player, vidUrl, vidUrl', isLoadingVideo',
                     requestedTimecode, requestedTimecode')

\* a handler of App that leaves requestedTimecode, and the render after it
Follow == requestedTimecode' = requestedTimecode /\ PlayerFollows

\* ------------------------------------------------------------------------
\* Initial state: the useState initial values, nothing in flight
\* ------------------------------------------------------------------------

\* no file
NoGetFile == [state |-> "", mimeType |-> ""]

\* uploadFile not called
IdleUploadFile ==
  [pc |-> "idle", fileType |-> "", retries |-> 0, seen |-> <<>>, getFile |-> NoGetFile,
   result |-> <<>>]

IdleRequest == [pc |-> "idle", mode |-> Undefined, file |-> Null, session |-> 0]

Init ==
  /\ vidUrl = Null
  /\ file = Null
  /\ timecodeList = None
  /\ selectedMode = FirstMode
  /\ activeMode = Undefined
  /\ isLoading = FALSE
  /\ isLoadingVideo = FALSE
  /\ videoError = FALSE
  /\ nDrops = 0
  /\ upload = [d \in Drops |-> "idle"]
  /\ uf = IdleUploadFile
  /\ nRequests = 0
  /\ genReq = [r \in Requests |-> IdleRequest]
  /\ liveUrls = {}
  /\ requestedTimecode = NoTimecode
  /\ player = InitPlayer
  /\ uncaught = FALSE
  /\ lastOp = [op |-> "init"]

\* ------------------------------------------------------------------------
\* uploadVideo: the drop handler up to its await
\* ------------------------------------------------------------------------

\* drops whose uploadFile has not settled
PendingUploads == { d \in Drops : upload[d] = "pending" }

\* a video file is dropped: reset, preview URL, uploadFile started
DropVideo ==
  /\ nDrops < MaxDrops
  /\ nDrops' = nDrops + 1
  /\ isLoadingVideo' = TRUE
  /\ videoError' = FALSE
  /\ vidUrl' = nDrops'
  /\ file' = Null
  /\ timecodeList' = None
  /\ activeMode' = Undefined
  /\ liveUrls' = liveUrls \cup {nDrops'}
  /\ upload' = [upload EXCEPT ![nDrops'] = "pending"]
  /\ lastOp' = [op |-> "dropVideo", d |-> nDrops']
  /\ requestedTimecode' = NoTimecode
  /\ UNCHANGED <<selectedMode, isLoading, uf, nRequests, genReq, uncaught>>
  /\ PlayerFollows

\* DropNonVideo without setFile(null)
DropNonVideoKeepsFile ==
  /\ nDrops < MaxDrops
  /\ nDrops' = nDrops + 1
  /\ videoError' = TRUE
  /\ isLoadingVideo' = FALSE
  /\ vidUrl' = Null
  /\ timecodeList' = None
  /\ activeMode' = Undefined
  /\ lastOp' = [op |-> "dropNonVideo", d |-> nDrops']
  /\ UNCHANGED <<file, selectedMode, isLoading, upload, uf, nRequests, genReq, liveUrls, uncaught>>
  /\ Follow

\* a file whose type does not start with video/ is dropped
DropNonVideo ==
  /\ nDrops < MaxDrops
  /\ nDrops' = nDrops + 1
  /\ videoError' = TRUE
  /\ isLoadingVideo' = FALSE
  /\ vidUrl' = Null
  /\ file' = Null
  /\ timecodeList' = None
  /\ activeMode' = Undefined
  /\ lastOp' = [op |-> "dropNonVideo", d |-> nDrops']
  /\ UNCHANGED <<selectedMode, isLoading, upload, uf, nRequests, genReq, liveUrls, uncaught>>
  /\ Follow

\* a drop that carries no file
DropNoFile ==
  /\ nDrops < MaxDrops
  /\ nDrops' = nDrops + 1
  /\ videoError' = TRUE
  /\ isLoadingVideo' = FALSE
  /\ lastOp' = [op |-> "dropNoFile", d |-> nDrops']
  /\ UNCHANGED <<vidUrl, file, timecodeList, selectedMode, activeMode, isLoading,
                 upload, uf, nRequests, genReq, liveUrls, uncaught>>
  /\ Follow

\* ------------------------------------------------------------------------
\* The continuation of uploadVideo after await uploadFile
\* ------------------------------------------------------------------------

uploadFrame ==
  <<timecodeList, selectedMode, activeMode, isLoading, nDrops, uf, nRequests, genReq,
    uncaught>>

\* uploadFile returned the handle of drop d: the rest of the try block
UploadResolved(d) ==
  /\ upload[d] = "pending"
  /\ upload' = [upload EXCEPT ![d] = "done"]
  /\ file' = d
  /\ isLoadingVideo' = FALSE
  /\ lastOp' = [op |-> "uploadResolved", d |-> d]
  /\ UNCHANGED <<vidUrl, videoError, liveUrls>>
  /\ UNCHANGED uploadFrame
  /\ Follow

\* the catch block without setIsLoadingVideo(false)
UploadRejectedStaysLoading(d) ==
  /\ upload[d] = "pending"
  /\ upload' = [upload EXCEPT ![d] = "done"]
  /\ videoError' = TRUE
  /\ liveUrls' = liveUrls \ {d}
  /\ vidUrl' = Null
  /\ file' = Null
  /\ lastOp' = [op |-> "uploadRejected", d |-> d]
  /\ UNCHANGED isLoadingVideo
  /\ UNCHANGED uploadFrame
  /\ Follow

\* uploadFile threw: the catch block
UploadRejected(d) ==
  /\ upload[d] = "pending"
  /\ upload' = [upload EXCEPT ![d] = "done"]
  /\ videoError' = TRUE
  /\ isLoadingVideo' = FALSE
  /\ liveUrls' = liveUrls \ {d}
  /\ vidUrl' = Null
  /\ file' = Null
  /\ lastOp' = [op |-> "uploadRejected", d |-> d]
  /\ UNCHANGED uploadFrame
  /\ Follow

\* ------------------------------------------------------------------------
\* uploadFile
\* ------------------------------------------------------------------------

\* file.type of the files uploadFile is called with
VideoTypes == {"video/mp4", "video/webm"}

\* what client.files.get can resolve with; mimeType may be missing
GetFiles == [state : FileStates, mimeType : {"", "video/mp4"}]

\* all of vars but uf
appVars ==
  << vidUrl, file, timecodeList, selectedMode, activeMode, isLoading,
     isLoadingVideo, videoError, nDrops, upload, nRequests, genReq,
     liveUrls, requestedTimecode, player, uncaught, lastOp >>

\* the loop condition with <= for <
ShouldRetryOffByOne(state, retries) == state = "PROCESSING" /\ retries <= maxRetries

\* the loop condition without the test of the state
ShouldRetryAnyState(state, retries) == retries < maxRetries

\* the loop condition of the polling loop
ShouldRetry(state, retries) == state = "PROCESSING" /\ retries < maxRetries

\* the object uploadFile returns
FileInfo(getFile, fileType) ==
  [uri |-> "files/1",
   mimeType |-> IF getFile.mimeType # "" THEN getFile.mimeType ELSE fileType]

\* uploadFile after the polling loop: throw unless the file is ACTIVE
AfterLoop(call) ==
  IF call.getFile.state = "FAILED"
    THEN [call EXCEPT !.pc = "thrown"]
    ELSE IF call.getFile.state # "ACTIVE"
      THEN [call EXCEPT !.pc = "thrown"]
      ELSE [call EXCEPT !.pc = "returned",
                        !.result = <<FileInfo(call.getFile, call.fileType)>>]

\* client.files.get resolved with getFile: the loop condition, then the loop or the end
AfterGet(call, getFile, retries) ==
  LET got == [call EXCEPT !.getFile = getFile, !.retries = retries,
                          !.seen = Append(call.seen, getFile.state)]
  IN IF ShouldRetry(getFile.state, retries)
       THEN [got EXCEPT !.pc = "poll"]
       ELSE AfterLoop(got)

\* uploadFile is called; client.files.upload is awaited
UfCall(fileType) ==
  /\ uf.pc = "idle"
  /\ uf' = [IdleUploadFile EXCEPT !.pc = "upload", !.fileType = fileType]
  /\ UNCHANGED appVars

\* client.files.upload resolves; the first client.files.get is awaited
UfUploaded ==
  /\ uf.pc = "upload"
  /\ uf' = [uf EXCEPT !.pc = "get"]
  /\ UNCHANGED appVars

\* the first client.files.get resolves
UfFirstGet(getFile) ==
  /\ uf.pc = "get"
  /\ uf' = AfterGet(uf, getFile, 0)
  /\ UNCHANGED appVars

\* one iteration of the loop: the timer, client.files.get, retries++
UfPollRetry(getFile) ==
  /\ uf.pc = "poll"
  /\ uf' = AfterGet(uf, getFile, uf.retries + 1)
  /\ UNCHANGED appVars

\* client.files.upload or client.files.get rejects: uploadFile rejects
UfRpcRejects ==
  /\ uf.pc \in {"upload", "get", "poll"}
  /\ uf' = [uf EXCEPT !.pc = "thrown"]
  /\ UNCHANGED appVars

NextUpload ==
  \/ \E t \in VideoTypes : UfCall(t)
  \/ UfUploaded
  \/ \E g \in GetFiles : UfFirstGet(g)
  \/ \E g \in GetFiles : UfPollRetry(g)
  \/ UfRpcRejects

SpecUpload == Init /\ [][NextUpload]_vars

\* ------------------------------------------------------------------------
\* The function map and its handlers
\* ------------------------------------------------------------------------

RECURSIVE UnescapeQuotes(_)
\* text.replace(/\\'/g, "'"): every backslash followed by ' becomes '
UnescapeQuotes(text) ==
  IF text = <<>> THEN <<>>
  ELSE IF Len(text) >= 2 /\ text[1] = "\\" /\ text[2] = "'"
    THEN <<"'">> \o UnescapeQuotes(SubSeq(text, 3, Len(text)))
    ELSE <<text[1]>> \o UnescapeQuotes(Tail(text))

\* {...t, text: t.text ? t.text.replace(...) : ''}
MapEntry(t) ==
  [f \in DOMAIN t \cup {"text"} |->
     IF f = "text"
       THEN IF "text" \in DOMAIN t /\ t.text # <<>> THEN UnescapeQuotes(t.text) ELSE <<>>
       ELSE t[f]]

\* setTimecodes: the list setTimecodeList receives
setTimecodes(args) ==
  [i \in 1..Len(args.timecodes) |-> MapEntry(args.timecodes[i])]

\* the handler of set_timecodes_with_numeric_values
setNumericValues(args) == args.timecodes

\* keys of fnMap
FnNames ==
  {"set_timecodes", "set_timecodes_with_objects", "set_timecodes_with_numeric_values"}

\* fnMap[name](args), for a name of the map
fnMap(name, args) ==
  IF name = "set_timecodes_with_numeric_values"
    THEN setNumericValues(args)
    ELSE setTimecodes(args)

\* the last call of the response in place of the first
FirstCallLast(resp) ==
  IF Len(resp.functionCalls) > 0
    THEN <<resp.functionCalls[Len(resp.functionCalls)]>>
    ELSE <<>>

\* resp.functionCalls?.[0]
FirstCall(resp) ==
  IF Len(resp.functionCalls) > 0 THEN <<resp.functionCalls[1]>> ELSE <<>>

\* Dispatched with a name the map lacks handled by setTimecodes
DispatchedAnyName(resp, list) ==
  LET call == FirstCall(resp) IN
  IF call # <<>>
    THEN IF call[1].name = "set_timecodes_with_numeric_values"
           THEN Some(setNumericValues(call[1].args))
           ELSE Some(setTimecodes(call[1].args))
    ELSE list

\* Dispatched with the text of a response without call stored as an entry
DispatchedTextAsEntry(resp, list) ==
  LET call == FirstCall(resp) IN
  IF call # <<>>
    THEN IF call[1].name \in FnNames
           THEN Some(fnMap(call[1].name, call[1].args))
           ELSE list
    ELSE IF resp.text # ""
      THEN Some(<< [time |-> <<"0", ":", "0", "0">>, text |-> <<"a">>] >>)
      ELSE list

\* timecodeList after the try block handled resp
Dispatched(resp, list) ==
  LET call == FirstCall(resp) IN
  IF call # <<>>
    THEN IF call[1].name \in FnNames
           THEN Some(fnMap(call[1].name, call[1].args))
           ELSE list
    ELSE list

\* ------------------------------------------------------------------------
\* The sidebar and onModeSelect
\* ------------------------------------------------------------------------

\* the mode selector is rendered
SidebarShown == vidUrl # Null /\ ~isLoadingVideo

\* a mode button of the main list
ClickMode(mode) ==
  /\ SidebarShown
  /\ selectedMode \notin SubModes
  /\ selectedMode # mode
  /\ selectedMode' = mode
  /\ lastOp' = [op |-> "clickMode"]
  /\ UNCHANGED <<vidUrl, file, timecodeList, activeMode, isLoading, isLoadingVideo,
                 videoError, nDrops, upload, uf, nRequests, genReq, liveUrls, uncaught>>
  /\ Follow

\* the back button of a sub mode
ClickBack ==
  /\ SidebarShown
  /\ selectedMode \in SubModes
  /\ selectedMode' = FirstMode
  /\ lastOp' = [op |-> "clickBack"]
  /\ UNCHANGED <<vidUrl, file, timecodeList, activeMode, isLoading, isLoadingVideo,
                 videoError, nDrops, upload, uf, nRequests, genReq, liveUrls, uncaught>>
  /\ Follow

\* onModeSelect without the test of file
onModeSelectNoGuard(mode, via) ==
  /\ nRequests < MaxRequests
  /\ nRequests' = nRequests + 1
  /\ activeMode' = mode
  /\ isLoading' = TRUE
  /\ genReq' = [genReq EXCEPT ![nRequests'] =
                  [pc |-> "pending", mode |-> mode, file |-> file, session |-> nDrops]]
  /\ lastOp' = [op |-> "onModeSelect", via |-> via, sent |-> TRUE]
  /\ UNCHANGED <<vidUrl, file, timecodeList, selectedMode, isLoadingVideo,
                 videoError, nDrops, upload, uf, liveUrls, uncaught>>
  /\ Follow

\* onModeSelect up to its await; via is the trigger
onModeSelect(mode, via) ==
  IF file = Null
    THEN /\ videoError' = TRUE
         /\ lastOp' = [op |-> "onModeSelect", via |-> via, sent |-> FALSE]
         /\ UNCHANGED <<vidUrl, file, timecodeList, selectedMode, activeMode, isLoading,
                        isLoadingVideo, nDrops, upload, uf, nRequests, genReq, liveUrls,
                        uncaught>>
         /\ Follow
    ELSE /\ nRequests < MaxRequests
         /\ nRequests' = nRequests + 1
         /\ activeMode' = mode
         /\ isLoading' = TRUE
         /\ genReq' = [genReq EXCEPT ![nRequests'] =
                         [pc |-> "pending", mode |-> mode, file |-> file, session |-> nDrops]]
         /\ lastOp' = [op |-> "onModeSelect", via |-> via, sent |-> TRUE]
         /\ UNCHANGED <<vidUrl, file, timecodeList, selectedMode, isLoadingVideo,
                        videoError, nDrops, upload, uf, liveUrls, uncaught>>
         /\ Follow

\* the Generate button, disabled while isLoading or without file
ClickGenerate ==
  /\ SidebarShown
  /\ ~(isLoading \/ file = Null)
  /\ onModeSelect(selectedMode, "button")

\* Enter in the prompt textarea of a sub mode
PressEnter ==
  /\ SidebarShown
  /\ selectedMode \in SubModes
  /\ onModeSelect(selectedMode, "enter")

\* a video was dropped after request r was issued
Superseded(r) == \E b \in (genReq[r].session + 1)..nDrops : upload[b] # "idle"

genFrame ==
  <<vidUrl, file, selectedMode, activeMode, isLoadingVideo, videoError, nDrops, upload,
    uf, nRequests, liveUrls>>

DoneRequest == [pc |-> "done", mode |-> Undefined, file |-> Null, session |-> 0]

\* generateContent resolves with resp: the rest of the try block, then finally
GenResolve(r, resp) ==
  /\ genReq[r].pc = "pending"
  /\ timecodeList' = Dispatched(resp, timecodeList)
  /\ isLoading' = FALSE
  /\ uncaught' = uncaught
  /\ genReq' = [genReq EXCEPT ![r] = DoneRequest]
  /\ lastOp' = [op |-> "genResolve", stale |-> Superseded(r), call |-> FirstCall(resp),
                resp |-> resp]
  /\ UNCHANGED genFrame
  /\ Follow

\* GenReject with a catch block that clears the list
GenRejectClearsList(r) ==
  /\ genReq[r].pc = "pending"
  /\ timecodeList' = None
  /\ isLoading' = FALSE
  /\ uncaught' = uncaught
  /\ genReq' = [genReq EXCEPT ![r] = DoneRequest]
  /\ lastOp' = [op |-> "genReject", stale |-> Superseded(r)]
  /\ UNCHANGED genFrame
  /\ Follow

\* generateContent rejects: catch, then finally
GenReject(r) ==
  /\ genReq[r].pc = "pending"
  /\ timecodeList' = timecodeList
  /\ isLoading' = FALSE
  /\ uncaught' = uncaught
  /\ genReq' = [genReq EXCEPT ![r] = DoneRequest]
  /\ lastOp' = [op |-> "genReject", stale |-> Superseded(r)]
  /\ UNCHANGED genFrame
  /\ Follow

Next ==
  \/ DropVideo
  \/ DropNonVideo
  \/ DropNoFile
  \/ \E d \in Drops : UploadResolved(d)
  \/ \E d \in Drops : UploadRejected(d)
  \/ \E m \in Modes : ClickMode(m)
  \/ ClickBack
  \/ ClickGenerate
  \/ PressEnter
  \/ \E r \in Requests, resp \in Responses : GenResolve(r, resp)
  \/ \E r \in Requests : GenReject(r)

Spec == Init /\ [][Next]_vars


\* ------------------------------------------------------------------------
\* timeToSecs
\* ------------------------------------------------------------------------

\* the value of a decimal digit
DigitValue(c) ==
  CASE c = "0" -> 0 [] c = "1" -> 1 [] c = "2" -> 2 [] c = "3" -> 3 [] c = "4" -> 4
    [] c = "5" -> 5 [] c = "6" -> 6 [] c = "7" -> 7 [] c = "8" -> 8 [] c = "9" -> 9

RECURSIVE SplitColon(_)
\* time.split(':'): the parts between the colons
SplitColon(chars) ==
  IF \A i \in 1..Len(chars) : chars[i] # ":"
    THEN <<chars>>
    ELSE LET k == CHOOSE i \in 1..Len(chars) :
                    chars[i] = ":" /\ \A j \in 1..(i - 1) : chars[j] # ":"
         IN <<SubSeq(chars, 1, k - 1)>> \o SplitColon(SubSeq(chars, k + 1, Len(chars)))

RECURSIVE ParseInt(_)
\* a part parsed as an integer
ParseInt(digits) ==
  IF digits = <<>> THEN 0
  ELSE 10 * ParseInt(SubSeq(digits, 1, Len(digits) - 1)) + DigitValue(digits[Len(digits)])

RECURSIVE SumParts(_)
\* the parts weighted 1, 60, 3600 from the rightmost
SumParts(parts) ==
  IF parts = <<>> THEN 0
  ELSE 60 * SumParts(SubSeq(parts, 1, Len(parts) - 1)) + ParseInt(parts[Len(parts)])

\* seconds of a timestamp M:SS or H:MM:SS
timeToSecs(time) == SumParts(SplitColon(time))

\* ------------------------------------------------------------------------
\* VideoPlayer: its handlers
\* ------------------------------------------------------------------------

\* positions playback is observed at, besides those seek requests set
Positions == {7, 12}

\* values the scrubber input is dragged to
ScrubValues == {Frac(1, 2)}

\* all of vars but player, requestedTimecode and lastOp
playerFrame ==
  <<vidUrl, file, timecodeList, selectedMode, activeMode, isLoading, isLoadingVideo,
    videoError, nDrops, upload, uf, nRequests, genReq, liveUrls, uncaught>>

\* slice().reverse()
Reverse(list) == [i \in 1..Len(list) |-> list[Len(list) + 1 - i]]

RECURSIVE FindText(_, _)
\* find(t => timeToSecs(t.time) <= currentTime)?.text: <<>> is undefined
FindText(list, currentTime) ==
  IF list = <<>> THEN <<>>
  ELSE IF timeToSecs(list[1].time) <= currentTime
    THEN IF "text" \in DOMAIN list[1] THEN <<list[1].text>> ELSE <<>>
    ELSE FindText(Tail(list), currentTime)

\* updateTime with the scrubber set while the user drags it
updateTimeWhileScrubbing(p, list) ==
  LET p1 == [p EXCEPT !.scrubberTime = TimeRatio(p.currentTime, p.videoDuration)]
  IN IF list # None
       THEN [p1 EXCEPT !.currentCaption = FindText(Reverse(list[1]), p.currentTime)]
       ELSE p1

\* updateTime, the player is mounted
updateTime(p, list) ==
  LET p1 == IF ~p.isScrubbing
              THEN [p EXCEPT !.scrubberTime = TimeRatio(p.currentTime, p.videoDuration)]
              ELSE p
  IN IF list # None
       THEN [p1 EXCEPT !.currentCaption = FindText(Reverse(list[1]), p.currentTime)]
       ELSE p1

\* the timeupdate event of the video element
TimeUpdate ==
  /\ player.mounted
  /\ player' = updateTime(player, timecodeList)
  /\ lastOp' = [op |-> "timeupdate"]
  /\ UNCHANGED requestedTimecode
  /\ UNCHANGED playerFrame

\* the loadedmetadata event: updateDuration
LoadedMetadata ==
  /\ player.mounted
  /\ player.videoDuration = NaN
  /\ player' = [player EXCEPT !.videoDuration = VideoLength, !.duration = VideoLength]
  /\ lastOp' = [op |-> "player"]
  /\ UNCHANGED requestedTimecode
  /\ UNCHANGED playerFrame

\* the playing video element moves on to position t
Progress(t) ==
  /\ player.mounted
  /\ ~player.paused
  /\ player.videoDuration # NaN
  /\ t > player.currentTime
  /\ player' = [player EXCEPT !.currentTime = t]
  /\ lastOp' = [op |-> "player"]
  /\ UNCHANGED requestedTimecode
  /\ UNCHANGED playerFrame

\* togglePlay, then onPause or onPlay for the event the element fires
TogglePlay ==
  /\ player.mounted
  /\ player' = IF player.isPlaying
                 THEN IF player.paused THEN player
                      ELSE [player EXCEPT !.paused = TRUE, !.isPlaying = FALSE]
                 ELSE [player EXCEPT !.paused = FALSE, !.isPlaying = TRUE]
  /\ lastOp' = [op |-> "player"]
  /\ UNCHANGED requestedTimecode
  /\ UNCHANGED playerFrame

\* onPointerDown of the scrubber
PointerDown ==
  /\ player.mounted
  /\ ~player.isScrubbing
  /\ player' = [player EXCEPT !.isScrubbing = TRUE]
  /\ lastOp' = [op |-> "player"]
  /\ UNCHANGED requestedTimecode
  /\ UNCHANGED playerFrame

\* onPointerUp of the scrubber
PointerUp ==
  /\ player.mounted
  /\ player.isScrubbing
  /\ player' = [player EXCEPT !.isScrubbing = FALSE]
  /\ lastOp' = [op |-> "player"]
  /\ UNCHANGED requestedTimecode
  /\ UNCHANGED playerFrame

\* onChange of the scrubber with value v
ScrubChange(v) ==
  /\ player.mounted
  /\ player.isScrubbing
  /\ player' = [player EXCEPT !.scrubberTime = v,
                              !.currentTime = (v.n * player.duration) \div v.d]
  /\ lastOp' = [op |-> "player"]
  /\ UNCHANGED requestedTimecode
  /\ UNCHANGED playerFrame

\* MarkerShown without the test pct > 100
MarkerShownBeyondEnd(secs) ==
  LET pct == IF player.duration > 0 THEN Frac(secs * 100, player.duration) ELSE Zero
  IN player.mounted /\ ~(pct.n < 0)

\* the marker of an entry at secs is rendered
MarkerShown(secs) ==
  LET pct == IF player.duration > 0 THEN Frac(secs * 100, player.duration) ELSE Zero
  IN player.mounted /\ ~(pct.n < 0 \/ pct.n > 100 * pct.d)

\* the entries are listed in the output section
OutputShown == ~isLoading

\* jumpToTimecode(secs): a marker or a listed entry of time secs is clicked
JumpToTimecode(secs) ==
  /\ timecodeList # None
  /\ \E i \in 1..Len(timecodeList[1]) : timeToSecs(timecodeList[1][i].time) = secs
  /\ MarkerShown(secs) \/ OutputShown
  /\ requestedTimecode' = secs
  /\ lastOp' = [op |-> "jumpToTimecode", secs |-> secs]
  /\ UNCHANGED playerFrame
  /\ PlayerFollows

\* the responses that call set_timecodes or set_timecodes_with_numeric_values
ListResponses ==
  { resp \in Responses :
      /\ Len(resp.functionCalls) = 1
      /\ resp.functionCalls[1].name \in {"set_timecodes", "set_timecodes_with_numeric_values"}
      /\ Len(resp.functionCalls[1].args.timecodes) = 2 }

\* times of the entries the responses carry
JumpTargets == { timeToSecs(t) : t \in {Time05, Time10} }

NextPlayer ==
  \/ DropVideo
  \/ \E d \in Drops : UploadResolved(d)
  \/ \E d \in Drops : UploadRejected(d)
  \/ ClickGenerate
  \/ \E r \in Requests, resp \in ListResponses : GenResolve(r, resp)
  \/ TimeUpdate
  \/ LoadedMetadata
  \/ \E t \in Positions : Progress(t)
  \/ TogglePlay
  \/ PointerDown
  \/ PointerUp
  \/ \E v \in ScrubValues : ScrubChange(v)
  \/ \E secs \in JumpTargets : JumpToTimecode(secs)

SpecPlayer == Init /\ [][NextPlayer]_vars

\* the handlers that set or clear the loading flags, and the mode clicks that
\* enable them
NextLive ==
  \/ DropVideo
  \/ DropNonVideo
  \/ DropNoFile
  \/ \E d \in Drops : UploadResolved(d)
  \/ \E d \in Drops : UploadRejected(d)
  \/ \E m \in Modes : ClickMode(m)
  \/ ClickGenerate
  \/ PressEnter
  \/ \E r \in Requests, resp \in ListResponses : GenResolve(r, resp)
  \/ \E r \in Requests : GenReject(r)

\* every RPC awaited returns or fails: each pending uploadFile and each pending
\* generateContent settles
RpcsSettle ==
  /\ \A d \in Drops : WF_vars(UploadResolved(d) \/ UploadRejected(d))
  /\ \A r \in Requests :
       WF_vars(GenReject(r) \/ \E resp \in ListResponses : GenResolve(r, resp))

SpecLive == Init /\ [][NextLive]_vars /\ RpcsSettle

\* ------------------------------------------------------------------------
\* The timecode markers
\* ------------------------------------------------------------------------

\* longest list a response sets here
MaxEntries == 2

Time00 == <<"0", ":", "0", "0">>

Time60 == <<"1", ":", "0", "0">>

\* times the entries of a list carry
MarkerTimes == {Time00, Time05, Time10, Time60}

\* the lists set_timecodes stores
MarkerLists ==
  UNION { [1..n -> { [time |-> t, text |-> <<"a">>] : t \in MarkerTimes }] : n \in 1..MaxEntries }

\* duration state: 0 before loadedmetadata, then the length of the video
Durations == {0, 4, 5, 8, 10, 59, 60}

\* pct of the marker of an entry at secs
MarkerPct(secs) ==
  IF player.duration > 0 THEN Frac(secs * 100, player.duration) ELSE Zero

\* a video of length duration is shown, a response has set list
InitMarkers ==
  \E list \in MarkerLists, duration \in Durations :
    /\ vidUrl = 1
    /\ file = 1
    /\ timecodeList = Some(list)
    /\ selectedMode = FirstMode
    /\ activeMode = FirstMode
    /\ isLoading = FALSE
    /\ isLoadingVideo = FALSE
    /\ videoError = FALSE
    /\ nDrops = 1
    /\ upload = [d \in Drops |-> IF d = 1 THEN "done" ELSE "idle"]
    /\ uf = IdleUploadFile
    /\ nRequests = 1
    /\ genReq = [r \in Requests |-> IF r = 1 THEN DoneRequest ELSE IdleRequest]
    /\ liveUrls = {1}
    /\ requestedTimecode = NoTimecode
    /\ player = [InitPlayer EXCEPT !.mounted = TRUE,
                                   !.duration = duration,
                                   !.videoDuration = IF duration = 0 THEN NaN ELSE duration]
    /\ uncaught = FALSE
    /\ lastOp = [op |-> "player"]

\* the timecodeMarkers section is rendered: the markers it shows
RenderMarkers ==
  /\ player.mounted
  /\ timecodeList # None
  /\ lastOp.op # "renderMarkers"
  /\ lastOp' = [op |-> "renderMarkers",
                shown |-> { [i |-> i, pct |-> MarkerPct(timeToSecs(timecodeList[1][i].time))] :
                              i \in { j \in 1..Len(timecodeList[1]) :
                                        MarkerShown(timeToSecs(timecodeList[1][j].time)) } }]
  /\ UNCHANGED <<requestedTimecode, player>>
  /\ UNCHANGED playerFrame

NextMarkers == RenderMarkers

SpecMarkers == InitMarkers /\ [][NextMarkers]_vars

\* ------------------------------------------------------------------------
\* Properties
\* ------------------------------------------------------------------------

\* the continuation of uploadVideo for a drop ran in the last step
SettleOps == {"uploadResolved", "uploadRejected"}

\* requests awaited
PendingRequests == { r \in Requests : genReq[r].pc = "pending" }

AllProcessing(seen) == \A i \in 1..Len(seen) : seen[i] = "PROCESSING"

\* C1: once a video B is dropped while the upload of an earlier drop A is
\* pending, the later settling of A's upload changes none of file, vidUrl,
\* isLoadingVideo and videoError.
C1_StaleUploadChangesNothing ==
  [][ ( /\ lastOp'.op \in SettleOps
        /\ \E b \in (lastOp'.d + 1)..nDrops : upload[b] # "idle" )
      => UNCHANGED <<file, vidUrl, isLoadingVideo, videoError>> ]_vars

\* C2: at most one generateContent request is in flight at any time.
C2_SingleFlight == Cardinality(PendingRequests) <= 1

\* C3: the response of a request that was in flight when a new video was
\* dropped does not set timecodeList.
C3_StaleResponseDiscarded ==
  [][ (lastOp'.op = "genResolve" /\ lastOp'.stale) => timecodeList' = timecodeList ]_vars

\* C4: dropping a file that is not a video starts no uploadFile and leaves
\* videoError true, isLoadingVideo false and vidUrl, file, timecodeList and
\* activeMode cleared.
C4_NonVideoDropFails ==
  [][ lastOp'.op = "dropNonVideo"
      => /\ UNCHANGED upload
         /\ videoError' /\ ~isLoadingVideo'
         /\ vidUrl' = Null /\ file' = Null
         /\ timecodeList' = None /\ activeMode' = Undefined ]_vars

\* a non-video drop after a video was dropped and uploaded
C4_Witness ==
  /\ lastOp.op = "dropNonVideo"
  /\ upload[1] = "done"
  /\ liveUrls # {}
  /\ videoError /\ file = Null

\* C5 as stated: one call of uploadFile polls the status at most 12 times.
C5_AtMostTwelvePolls == Len(uf.seen) <= maxRetries

\* C5 amended: one call of uploadFile polls the status at most
\* maxRetries + 1 = 13 times (the first get and at most 12 retries); after 13
\* results that all report PROCESSING no further poll is issued and the call
\* fails.
C5_AtMostThirteenPolls ==
  /\ Len(uf.seen) <= maxRetries + 1
  /\ (Len(uf.seen) = maxRetries + 1 /\ AllProcessing(uf.seen))
       => (uf.pc = "thrown" /\ uf.result = <<>>)

\* thirteen polls that all reported PROCESSING: the timeout
C5_Witness ==
  /\ uf.pc = "thrown"
  /\ Len(uf.seen) = maxRetries + 1
  /\ AllProcessing(uf.seen)

\* C6: a call of uploadFile whose polls report PROCESSING k-1 times and then
\* a terminal state stops at poll k: no poll follows a terminal result, ACTIVE
\* returns the {uri, mimeType} handle and FAILED throws.
C6_StopsAtTerminalResult ==
  LET seen == uf.seen
      k == Len(seen)
  IN /\ k >= 1 => AllProcessing(SubSeq(seen, 1, k - 1))
     /\ (k >= 1 /\ seen[k] = "ACTIVE")
          => /\ uf.pc = "returned"
             /\ uf.result # <<>>
             /\ uf.result[1].uri = "files/1"
             /\ uf.getFile.mimeType # "" => uf.result[1].mimeType = uf.getFile.mimeType
             /\ uf.getFile.mimeType = "" => uf.result[1].mimeType = uf.fileType
     /\ (k >= 1 /\ seen[k] = "FAILED") => (uf.pc = "thrown" /\ uf.result = <<>>)
     /\ uf.pc = "returned" => (k >= 1 /\ seen[k] = "ACTIVE")
     /\ uf.pc \in {"get", "poll"} => AllProcessing(seen)

\* the sequence PROCESSING, PROCESSING, ACTIVE
C6_Witness ==
  /\ uf.pc = "returned"
  /\ uf.seen = <<"PROCESSING", "PROCESSING", "ACTIVE">>
  /\ uf.result # <<>>

\* the first call of the response names a capability the map lacks
UnknownCapability(op) ==
  /\ op.op = "genResolve"
  /\ op.call # <<>>
  /\ op.call[1].name \notin FnNames

\* C7: a response that calls a name the function map lacks leaves
\* timecodeList and videoError as they were, throws nothing out of
\* onModeSelect and clears isLoading.
C7_UnknownCapabilityIsSoft ==
  [][ UnknownCapability(lastOp')
      => /\ timecodeList' = timecodeList
         /\ videoError' = videoError
         /\ ~uncaught'
         /\ ~isLoading' ]_vars

\* an unknown capability arrived while a list of an earlier response was kept
C7_Witness ==
  /\ UnknownCapability(lastOp)
  /\ timecodeList # None
  /\ ~isLoading

\* the entries stored for the entries args, each text unescaped
TextsUnescaped(stored, args) ==
  /\ Len(stored) = Len(args)
  /\ \A i \in 1..Len(args) :
       "text" \in DOMAIN args[i]
         => /\ "text" \in DOMAIN stored[i]
            /\ stored[i].text = UnescapeQuotes(args[i].text)

\* C8: whichever registered capability handled the call, every text of the
\* stored entries has its escaped single quotes replaced by plain ones.
C8_TextUnescapedByEveryCapability ==
  ( /\ lastOp.op = "genResolve"
    /\ lastOp.call # <<>>
    /\ lastOp.call[1].name \in FnNames )
  => /\ timecodeList # None
     /\ TextsUnescaped(timecodeList[1], lastOp.call[1].args.timecodes)

\* C9: onModeSelect without an uploaded file sets videoError, issues no
\* request, throws nothing and leaves isLoading, activeMode and timecodeList.
C9_NoMediaSetsErrorOnly ==
  [][ (lastOp'.op = "onModeSelect" /\ file = Null)
      => /\ videoError'
         /\ ~uncaught'
         /\ UNCHANGED <<nRequests, genReq, isLoading, activeMode, timecodeList>> ]_vars

\* Enter was pressed in the prompt textarea while no file was uploaded
C9_Witness ==
  /\ lastOp.op = "onModeSelect"
  /\ ~lastOp.sent
  /\ file = Null
  /\ videoError
  /\ PendingRequests = {}

\* C10: when generateContent rejects, timecodeList stays as it was, isLoading
\* is cleared and nothing is thrown out of onModeSelect.
C10_RejectKeepsList ==
  [][ lastOp'.op = "genReject"
      => /\ timecodeList' = timecodeList
         /\ ~isLoading'
         /\ ~uncaught' ]_vars

\* a request failed while the list of an earlier response was shown
C10_Witness ==
  /\ lastOp.op = "genReject"
  /\ timecodeList # None
  /\ ~isLoading

\* C11: after a generateContent request failed, an error indicator of the
\* application state (videoError, the only one the component has) is true.
C11_RejectSetsError == lastOp.op = "genReject" => videoError

\* C12: timecodeList is emptied when a video is dropped and when onModeSelect
\* issues a request.
C12_ListEmptiedOnStart ==
  [][ (lastOp'.op = "dropVideo" \/ (lastOp'.op = "onModeSelect" /\ lastOp'.sent))
      => timecodeList' = None ]_vars

\* C13: after a transition to the failed state (a non-video drop, a failed
\* upload) no created object URL is left unrevoked.
C13_NoUrlAfterFailure ==
  lastOp.op \in {"dropNonVideo", "uploadRejected"} => liveUrls = {}

\* C14: at most one created object URL is unrevoked, and it is vidUrl.
C14_OnlyShownUrlLive ==
  /\ Cardinality(liveUrls) <= 1
  /\ liveUrls \subseteq {vidUrl}

\* the caption the claim names: the text of the last entry in list order whose
\* time is at most currentTime, none (<<>>) without such an entry
CaptionAt(list, currentTime) ==
  LET entries == IF list = None THEN <<>> ELSE list[1]
      at == { i \in 1..Len(entries) : timeToSecs(entries[i].time) <= currentTime }
  IN IF at = {} THEN <<>>
     ELSE LET last == CHOOSE i \in at : \A j \in at : j <= i
          IN IF "text" \in DOMAIN entries[last] THEN <<entries[last].text>> ELSE <<>>

\* C15: after every timeupdate the caption is the text of the entry nearest
\* the end of the list among those whose time is at most the playback time,
\* and is cleared if no entry qualifies.
C15_CaptionAfterTimeUpdate ==
  lastOp.op = "timeupdate"
    => player.currentCaption = CaptionAt(timecodeList, player.currentTime)

\* C16: a timeupdate during a scrub session leaves scrubberTime; outside one it
\* sets scrubberTime to currentTime / duration, 0 when that is not a number.
C16_ScrubbingWins ==
  [][ lastOp'.op = "timeupdate"
      => IF player.isScrubbing
           THEN player'.scrubberTime = player.scrubberTime
           ELSE IF player.videoDuration = NaN
             THEN player'.scrubberTime = [n |-> 0, d |-> 1]
             ELSE player'.scrubberTime.n * player.videoDuration
                    = player.currentTime * player'.scrubberTime.d ]_vars

\* a timeupdate during a scrub session, the scrubber not where the video is
C16_Witness ==
  /\ lastOp.op = "timeupdate"
  /\ player.isScrubbing
  /\ player.videoDuration # NaN
  /\ player.scrubberTime.n * player.videoDuration # player.currentTime * player.scrubberTime.d

\* C17: a call of jumpToTimecode(secs) with a mounted video sets the playback
\* position to secs and leaves isPlaying.
C17_JumpSetsPosition ==
  [][ (lastOp'.op = "jumpToTimecode" /\ player.mounted)
      => /\ player'.currentTime = lastOp'.secs
         /\ player'.isPlaying = player.isPlaying ]_vars

\* C18: when url changes, scrubberTime is 0, isPlaying is false and a mounted
\* video is at position 0.
C18_UrlChangeResets ==
  [][ vidUrl' # vidUrl
      => /\ player'.scrubberTime = [n |-> 0, d |-> 1]
         /\ ~player'.isPlaying
         /\ player'.mounted => player'.currentTime = 0 ]_vars

\* a second video was dropped on a player that had loaded and captioned one
C18_Witness ==
  /\ lastOp.op = "dropVideo"
  /\ lastOp.d = 2
  /\ player.duration = VideoLength
  /\ player.currentCaption # <<>>
  /\ player.scrubberTime = Zero
  /\ ~player.isPlaying

\* C19: when url changes, duration, isScrubbing and the caption also return
\* to their initial values.
C19_UrlChangeResetsAll ==
  [][ vidUrl' # vidUrl
      => /\ player'.duration = 0
         /\ ~player'.isScrubbing
         /\ player'.currentCaption = <<>> ]_vars

\* C20: if every RPC settles, isLoadingVideo and isLoading each become false
\* again after they were set.
C20_LoadingEnds ==
  /\ isLoadingVideo ~> ~isLoadingVideo
  /\ isLoading ~> ~isLoading

\* both flags cleared by failures: the upload of the second drop and the
\* request of the first both failed
C20_Witness ==
  /\ lastOp.op = "uploadRejected"
  /\ lastOp.d = 2
  /\ nRequests >= 1
  /\ PendingRequests = {}
  /\ PendingUploads = {}
  /\ ~isLoadingVideo /\ ~isLoading

\* C21: a response without function call, with text or without, leaves
\* timecodeList and videoError as they were.
C21_NoCallChangesNothing ==
  [][ (lastOp'.op = "genResolve" /\ lastOp'.resp.functionCalls = <<>>)
      => /\ timecodeList' = timecodeList
         /\ videoError' = videoError ]_vars

\* a text-only response arrived while a list of an earlier response was shown
C21_Witness ==
  /\ lastOp.op = "genResolve"
  /\ lastOp.resp.functionCalls = <<>>
  /\ lastOp.resp.text # ""
  /\ timecodeList # None
  /\ ~videoError

\* C22: of a response with several function calls only the first is
\* dispatched: timecodeList becomes what the handler of the first call gives,
\* and stays as it was if the first call names no capability of the map,
\* whatever the later calls name.
C22_OnlyFirstCallDispatched ==
  [][ (lastOp'.op = "genResolve" /\ Len(lastOp'.resp.functionCalls) >= 2)
      => LET first == lastOp'.resp.functionCalls[1]
         IN IF first.name \in FnNames
              THEN timecodeList' = Some(IF first.name = "set_timecodes_with_numeric_values"
                                          THEN first.args.timecodes
                                          ELSE setTimecodes(first.args))
              ELSE timecodeList' = timecodeList ]_vars

\* an unknown first call followed by a registered one: the list of an earlier
\* response is kept, not the list of the second call
C22_Witness ==
  /\ lastOp.op = "genResolve"
  /\ Len(lastOp.resp.functionCalls) = 2
  /\ lastOp.resp.functionCalls[1].name \notin FnNames
  /\ lastOp.resp.functionCalls[2].name \in FnNames
  /\ timecodeList # None
  /\ timecodeList # Some(lastOp.resp.functionCalls[2].args.timecodes)

\* seconds of entry i of the list shown
SecsOf(i) == timeToSecs(timecodeList[1][i].time)

\* C23 as stated: every rendered marker is of an entry whose time lies
\* between 0 and the duration, for every duration, the initial 0 included.
C23_MarkersWithinDuration ==
  lastOp.op = "renderMarkers"
    => \A m \in lastOp.shown : 0 <= SecsOf(m.i) /\ SecsOf(m.i) <= player.duration

\* C23 amended: every rendered marker has a position between 0% and 100%;
\* with a duration above 0 the rendered markers are exactly those of the
\* entries whose time lies between 0 and the duration, at time / duration;
\* with duration 0 every entry has a marker, at 0%.
C23_MarkersWithinPercent ==
  lastOp.op = "renderMarkers"
    => /\ \A m \in lastOp.shown : 0 <= m.pct.n /\ m.pct.n <= 100 * m.pct.d
       /\ IF player.duration > 0
            THEN /\ { m.i : m \in lastOp.shown }
                      = { i \in 1..Len(timecodeList[1]) :
                            0 <= SecsOf(i) /\ SecsOf(i) <= player.duration }
                 /\ \A m \in lastOp.shown :
                      m.pct.n * player.duration = SecsOf(m.i) * 100 * m.pct.d
            ELSE /\ { m.i : m \in lastOp.shown } = 1..Len(timecodeList[1])
                 /\ \A m \in lastOp.shown : m.pct.n = 0

\* a list with an entry within and an entry beyond the duration: only the
\* marker of the first is rendered
C23_Witness ==
  /\ lastOp.op = "renderMarkers"
  /\ player.duration = 8
  /\ Len(timecodeList[1]) = 2
  /\ SecsOf(1) = 5 /\ SecsOf(2) = 10
  /\ { m.i : m \in lastOp.shown } = {1}

\* C24: whenever file is set, vidUrl is set and file is the handle the upload
\* of the video vidUrl previews returned (drop d has URL d and handle d).
C24_HandleOfShownVideo ==
  file # Null => (vidUrl # Null /\ file = vidUrl)

\* the request that settled in the step
SettledRequests == { r \in Requests : genReq[r].pc = "pending" /\ genReq'[r].pc = "done" }

\* the step ended a request without a call to a capability of the map
EndedWithoutList ==
  \/ lastOp'.op = "genReject"
  \/ /\ lastOp'.op = "genResolve"
     /\ lastOp'.call = <<>> \/ lastOp'.call[1].name \notin FnNames

\* C25: a list shown while isLoading is false is of the response to the
\* request that set activeMode: when that request, the last one issued and
\* with no drop since, fails or brings no call to a capability, no list is
\* shown afterwards.
C25_ListOfActiveMode ==
  [][ ( /\ EndedWithoutList
        /\ ~lastOp'.stale
        /\ nRequests \in SettledRequests
        /\ activeMode' = genReq[nRequests].mode )
      => ~(timecodeList' # None /\ ~isLoading') ]_vars

====
